---- MODULE Spec2Model ----
(***************************************************************************)
(* Image processing pipeline (src/image_processing.py): the steps as pure  *)
(* operators on rasters, and ImageProcessingPipeline.process_image as a    *)
(* state machine that threads a working buffer through the invocations.    *)
(*                                                                         *)
(* A raster is a record [nd, h, w, c, px]: nd is the number of array axes  *)
(* (2 for a height x width buffer, 3 for height x width x channels), and   *)
(* px[y][x][ch] is the 8-bit value, all indices 0-based as in the source.  *)
(***************************************************************************)
EXTENDS Integers, Sequences, FiniteSets, TLC

VARIABLES
    image,      \* the caller's buffer (the argument of the call)
    orig,       \* the content of the caller's buffer when the call was made
    pipeline,   \* the list of invocations passed to the call
    idx,        \* how many invocations have been applied
    result,     \* the working buffer, and in the end the returned raster
    status,     \* "called", "running", "returned", "raised" (process_image);
                \* "ready", "done", "result_written", "source_written" (a step's
                \* process called on its own, and a write by the caller afterwards)
    error,      \* the exception that ended the call, "none" when there is none
    view,       \* the memory the array in result shares with the array the last
                \* step was given: NoView, or the place of result[0, 0] in it
    available_steps,    \* self.available_steps: the registry, step name -> step object
    steps_info, \* what get_available_steps returned last, NoInfo before any call
    other,      \* a second process_image call running on the same pipeline object
                \* at the same time: its arguments and locals, NoCall when there is none
    disk,       \* process_image_from_file: the files, the arguments and the position
                \* in the method, NoDisk when it is not the entry point
    http        \* /api/process-json: the request body, the position in the handler
                \* and the response, NoHttp when it is not the entry point

vars ==
    <<image, orig, pipeline, idx, result, status, error, view, available_steps, steps_info,
      other, disk, http>>

NoCall == [status |-> "absent"]
NoDisk == [pc |-> "absent"]
NoHttp == [pc |-> "absent"]

(***************************************************************************)
(* Bounds of the model.                                                    *)
(***************************************************************************)
MaxH == 2
MaxW == 2
MaxLen == 2
MaxKernel == 5
LargeW == 2100

(***************************************************************************)
(* Rasters.                                                                *)
(***************************************************************************)
NoResult == [nd |-> 0]

\* None where an array is expected
None == [nd |-> 0]
NoInfo == <<>>

\* the outcome of a call that raises instead of returning an array
Raised(kind) == [nd |-> 0, raised |-> kind]
IsRaised(r) == "raised" \in DOMAIN r

NewImage(nd, h, w, c, P(_, _, _)) ==
    [nd |-> nd, h |-> h, w |-> w, c |-> c,
     px |-> [y \in 0..(h - 1) |-> [x \in 0..(w - 1) |-> [ch \in 0..(c - 1) |-> P(y, x, ch)]]]]

\* image.shape
Shape(img) == IF img.nd = 2 THEN <<img.h, img.w>> ELSE <<img.h, img.w, img.c>>

Max(a, b) == IF a > b THEN a ELSE b
Min(a, b) == IF a < b THEN a ELSE b

\* An intermediate array of a computation, held as a tuple (of tuples): element
\* [i] of the array is A[i + 1], and element [i, j] is At(A, i, j)
Array(f) == <<>> \o f
At(A, i, j) == A[i + 1][j + 1]

\* np.clip(x, 0, 255).astype(np.uint8) on a value that is a whole number
Clip(v) == Max(0, Min(v, 255))

(***************************************************************************)
(* float32: every whole number below 2^24 is exact, larger ones are        *)
(* rounded to 24 significant bits, ties to even.                           *)
(***************************************************************************)
F32Exact == 16777216

RECURSIVE F32Ulp(_, _)
F32Ulp(n, q) == IF n < F32Exact * q THEN q ELSE F32Ulp(n, 2 * q)

F32Abs(n) ==
    IF n < F32Exact THEN n
    ELSE LET q == F32Ulp(n, 1)
             r == n % q
             lo == n - r
         IN  IF 2 * r < q THEN lo
             ELSE IF 2 * r > q THEN lo + q
             ELSE IF (lo \div q) % 2 = 0 THEN lo ELSE lo + q

F32(n) == IF n < 0 THEN 0 - F32Abs(0 - n) ELSE F32Abs(n)

\* np.cumsum along one axis of a float32 array: a running float32 sum of
\* v[lo..hi], appended to the prefix sums acc found so far
RECURSIVE Accumulate(_, _, _, _)
Accumulate(v, lo, hi, acc) ==
    IF lo > hi THEN acc
    ELSE IF lo = hi
         THEN Append(acc, IF acc = <<>> THEN v[lo] ELSE F32(acc[Len(acc)] + v[lo]))
    ELSE LET mid == (lo + hi) \div 2
             left == Accumulate(v, lo, mid, acc)
         IN  IF Len(left) = Len(acc) + (mid - lo + 1)      \* the left half is summed first
             THEN Accumulate(v, mid + 1, hi, left)
             ELSE <<>>

(***************************************************************************)
(* BoxBlurStep.process                                                     *)
(***************************************************************************)
\* if kernel_size % 2 == 0: kernel_size += 1
BlurKernelUncoerced(kernel_size) == kernel_size

BlurKernel(kernel_size) == IF kernel_size % 2 = 0 THEN kernel_size + 1 ELSE kernel_size

\* np.pad(img, pad, mode='edge') of channel ch: (h + 2 pad) x (w + 2 pad)
Padded(img, ch, pad) ==
    Array([i \in 1..(img.h + 2 * pad) |->
        Array([j \in 1..(img.w + 2 * pad) |->
            img.px[Max(0, Min(i - 1 - pad, img.h - 1))][Max(0, Min(j - 1 - pad, img.w - 1))][ch]])])

\* np.cumsum(np.cumsum(padded, axis=0), axis=1)
CumSum2D(p, H, W) ==
    LET down == Array([j \in 1..W |-> Accumulate(Array([i \in 1..H |-> p[i][j]]), 1, H, <<>>)])
    IN  Array([i \in 1..H |-> Accumulate(Array([j \in 1..W |-> down[j][i]]), 1, W, <<>>)])

\* cumsum = np.zeros((h + 2 pad + 1, w + 2 pad + 1)); cumsum[1:, 1:] = ...
IntegralTable(img, ch, pad) ==
    LET H == img.h + 2 * pad
        W == img.w + 2 * pad
        cs == CumSum2D(Padded(img, ch, pad), H, W)
    IN  Array([i \in 1..(H + 1) |->
            Array([j \in 1..(W + 1) |-> IF i = 1 \/ j = 1 THEN 0 ELSE cs[i - 1][j - 1]])])

\* the four indices of the lookup for output pixel (y, x)
BlurCorners(y, x, k) == [y1 |-> y, x1 |-> x, y2 |-> y + k, x2 |-> x + k]

\* cumsum[Y2, X2] - cumsum[Y1, X2] - cumsum[Y2, X1] + cumsum[Y1, X1], in float32
WindowSum(T, y, x, k) ==
    LET q == BlurCorners(y, x, k)
    IN  F32(F32(F32(At(T, q.y2, q.x2) - At(T, q.y1, q.x2)) - At(T, q.y2, q.x1))
            + At(T, q.y1, q.x1))

\* the layout of the returned array: if c == 1: output = output[:, :, 0]
BlurOutNd(img) == IF img.c = 1 THEN 2 ELSE 3

BoxBlurProcess(img, kernel_size) ==
    IF img.h = 0 \/ img.w = 0 THEN Raised("ValueError")   \* np.pad(mode='edge') of an empty axis
    ELSE
    LET k == BlurKernel(kernel_size)
        pad == k \div 2
        T == Array([ch \in 1..img.c |-> IntegralTable(img, ch - 1, pad)])
        out == [y \in 0..(img.h - 1) |-> [x \in 0..(img.w - 1) |-> [ch \in 0..(img.c - 1) |->
                   Clip(WindowSum(T[ch + 1], y, x, k) \div (k * k))]]]
    IN  [nd |-> BlurOutNd(img), h |-> img.h, w |-> img.w, c |-> img.c, px |-> out]

(***************************************************************************)
(* BrightnessStep.process: factor is the number f[1] / f[2] the caller     *)
(* wrote (1.3 is <<13, 10>>), f[1] >= 0 and f[2] > 0.                      *)
(***************************************************************************)
Pow2(n) == 2^n

\* n divided by d, rounded to the nearest whole number, halves to the even one
RoundHalfEven(n, d) ==
    LET q == n \div d
        r == n % d
    IN  IF 2 * r < d THEN q ELSE IF 2 * r > d THEN q + 1 ELSE IF q % 2 = 0 THEN q ELSE q + 1

\* the float32 nearest to p / q > 0, as <<m, k>> for the value m / 2^k with
\* 2^23 <= m <= 2^24 (24 significant bits)
RECURSIVE F32Scale(_, _, _)
F32Scale(p, q, k) ==
    IF p >= q * F32Exact THEN F32Scale(p, 2 * q, k - 1)
    ELSE IF p < q * 4096 THEN F32Scale(4096 * p, q, k + 12)
    ELSE IF p < q * 131072 THEN F32Scale(64 * p, q, k + 6)
    ELSE IF p < q * (F32Exact \div 2) THEN F32Scale(2 * p, q, k + 1)
    ELSE <<RoundHalfEven(p, q), k>>

\* F32Scale of the fractions the pipelines use, computed once
F32Known ==
    [f \in {<<15, 100>>, <<1, 2>>, <<1, 1>>, <<13, 10>>, <<3, 2>>, <<2, 1>>, <<3, 1>>,
            <<4, 1>>, <<5, 1>>, <<6, 1>>} |-> F32Scale(f[1], f[2], 0)] @@ <<>>

\* np.float32(p / q) for f = <<p, q>>
F32Fraction(f) == IF f \in DOMAIN F32Known THEN F32Known[f] ELSE F32Scale(f[1], f[2], 0)

\* the number of low bits float32 drops from a whole number whose part above
\* bit 12 is a
RECURSIVE DroppedBits(_, _)
DroppedBits(a, d) == IF a < Pow2(12 + d) THEN d ELSE DroppedBits(a, d + 1)

\* the float32 product of the whole number v in 0..255 and the float32 m / 2^k,
\* as <<n, j>> for the value n / 2^j: the product v * m is held as a * 2^12 + b
\* and rounded to 24 significant bits
F32Product(v, m, k) ==
    LET low == v * (m % 4096)
        a == v * (m \div 4096) + low \div 4096
        b == low % 4096
        d == DroppedBits(a, 0)
        kept == RoundHalfEven(a * 4096 + b, 1) \* below 2^24: nothing dropped
        top == a * Pow2(12 - d) + b \div Pow2(d)
        rest == b % Pow2(d)
        rounded == IF 2 * rest < Pow2(d) THEN top
                   ELSE IF 2 * rest > Pow2(d) THEN top + 1
                   ELSE IF top % 2 = 0 THEN top ELSE top + 1
    IN  IF d = 0 THEN <<kept, k>> ELSE <<rounded, k - d>>

\* int(v * factor): the whole part of the float32 product
F32ProductFloor(v, m, k) ==
    LET p == F32Product(v, m, k) IN p[1] \div Pow2(p[2])

\* np.clip(image.astype(np.float32) * factor, 0, 255).astype(np.uint8)
BrightnessValueAdditive(v, f) == Clip(v + f[1] \div f[2])

BrightnessValue(v, f) ==
    IF f[1] = 0 THEN 0
    ELSE LET mk == F32Fraction(f) IN Clip(F32ProductFloor(v, mk[1], mk[2]))

BrightnessProcess(img, f) ==
    NewImage(img.nd, img.h, img.w, img.c, LAMBDA y, x, ch : BrightnessValue(img.px[y][x][ch], f))

(***************************************************************************)
(* SaturationStep.process and HueStep.process.  cv2.cvtColor between BGR   *)
(* and 8-bit HSV (hue in 0..179) is modelled by the hexcone formulas it     *)
(* implements, the fixed-point tables on the way in and exact arithmetic    *)
(* rounded to the nearest 8-bit value on the way out.                       *)
(***************************************************************************)
Max3(a, b, c) == Max(a, Max(b, c))
Min3(a, b, c) == Min(a, Min(b, c))

\* cv2.cvtColor(image, cv2.COLOR_BGR2HSV) on one pixel: <<h, s, v>>
Bgr2Hsv(b, g, r) ==
    LET v == Max3(b, g, r)
        diff == v - Min3(b, g, r)
        sdiv == IF v = 0 THEN 0 ELSE RoundHalfEven(255 * 4096, v)
        hdiv == IF diff = 0 THEN 0 ELSE RoundHalfEven(180 * 4096, 6 * diff)
        sextant == IF v = r THEN g - b
                   ELSE IF v = g THEN b - r + 2 * diff
                   ELSE r - g + 4 * diff
        h == (sextant * hdiv + 2048) \div 4096
    IN  <<IF h < 0 THEN h + 180 ELSE h, (diff * sdiv + 2048) \div 4096, v>>

\* cv2.cvtColor(hsv, cv2.COLOR_HSV2BGR) on one pixel: <<b, g, r>>
Hsv2Bgr(h, s, v) ==
    LET sector == (h \div 30) % 6
        f == h % 30
        tab == <<v,
                 RoundHalfEven(v * (255 - s), 255),
                 RoundHalfEven(v * (7650 - s * f), 7650),
                 RoundHalfEven(v * (7650 - s * (30 - f)), 7650)>>
        sector_data == <<<<1, 3, 0>>, <<1, 0, 2>>, <<3, 0, 1>>, <<0, 2, 1>>, <<0, 1, 3>>, <<2, 1, 0>>>>
    IN  IF s = 0 THEN <<v, v, v>>
        ELSE [i \in 1..3 |-> tab[sector_data[sector + 1][i] + 1]]

\* cvtColor takes a non-empty image of three channels
IsBgr(img) == img.nd = 3 /\ img.c = 3 /\ img.h >= 1 /\ img.w >= 1

\* a step that works on the HSV form of each pixel: T(hsv) is the HSV triple
\* written back before the conversion to BGR
ThroughHsv(img, T(_)) ==
    IF ~IsBgr(img) THEN Raised("cv2.error")
    ELSE NewImage(3, img.h, img.w, 3,
                  LAMBDA y, x, ch :
                      LET p == img.px[y][x]
                          hsv == T(Bgr2Hsv(p[0], p[1], p[2]))
                      IN  Hsv2Bgr(hsv[1], hsv[2], hsv[3])[ch + 1])

\* hsv[:, :, 1] * factor in float32, cut to 255, then astype(np.uint8)
SaturationValue(sat, f) ==
    IF f[1] = 0 THEN 0
    ELSE LET mk == F32Fraction(f) IN Min(F32ProductFloor(sat, mk[1], mk[2]), 255)

SaturationProcess(img, f) ==
    ThroughHsv(img, LAMBDA hsv : <<hsv[1], SaturationValue(hsv[2], f), hsv[3]>>)

\* (hsv[:, :, 0] + shift / 2) % 180 in float32 (halves are exact), then
\* astype(np.uint8), which drops the half
HueValueUnwrapped(hue, shift) == ((2 * hue + shift) \div 2) % 256

HueValue(hue, shift) == ((2 * hue + shift) % 360) \div 2

HueProcess(img, shift) ==
    ThroughHsv(img, LAMBDA hsv : <<HueValue(hsv[1], shift), hsv[2], hsv[3]>>)

(***************************************************************************)
(* Memory: an array either owns its buffer or is a view into another one.  *)
(***************************************************************************)
NoView == [shared |-> FALSE]
ViewAt(y0, x0) == [shared |-> TRUE, y0 |-> y0, x0 |-> x0]

\* a[y, x, ch] = v, in place
WritePixel(img, y, x, ch, v) == [img EXCEPT !.px[y][x][ch] = v]

(***************************************************************************)
(* CropStep.process                                                        *)
(***************************************************************************)
\* the bounds Python gives a slice [start:stop] of an axis of length n: a
\* negative bound counts from the end, and both are cut to 0..n
SliceBound(i, n) == IF i < 0 THEN Max(i + n, 0) ELSE Min(i, n)
SliceLen(start, stop, n) == Max(0, SliceBound(stop, n) - SliceBound(start, n))

\* x = max(0, min(x, w - 1)) without the upper bound
ClampOriginLow(x, w) == Max(0, x)

\* x = max(0, min(x, w - 1))
ClampOrigin(x, w) == Max(0, Min(x, w - 1))

\* x2 = min(x + width, w)
FarCorner(x, width, w) == Min(x + width, w)

\* image[y:y2, x:x2] on its own is a view into image
CropNoCopy(v) == v

\* image[y:y2, x:x2].copy()
CropCopy(v) == NoView

CropView(img, x, y, width, height) ==
    CropCopy(ViewAt(SliceBound(ClampOrigin(y, img.h), img.h), SliceBound(ClampOrigin(x, img.w), img.w)))

CropProcess(img, x, y, width, height) ==
    LET x1 == ClampOrigin(x, img.w)
        y1 == ClampOrigin(y, img.h)
        x2 == FarCorner(x1, width, img.w)
        y2 == FarCorner(y1, height, img.h)
        rows == SliceLen(y1, y2, img.h)
        cols == SliceLen(x1, x2, img.w)
        top == SliceBound(y1, img.h)
        left == SliceBound(x1, img.w)
    IN  NewImage(img.nd, rows, cols, img.c, LAMBDA r, q, ch : img.px[top + r][left + q][ch])

(***************************************************************************)
(* RotateStep.process                                                      *)
(***************************************************************************)
\* the array cv2 hands back: a one-channel result has no channel axis
Cv2Array(h, w, c, P(_, _, _)) == NewImage(IF c = 1 THEN 2 ELSE 3, h, w, c, P)

\* cv2.rotate(image, cv2.ROTATE_90_CLOCKWISE)
Rotate90(img) ==
    Cv2Array(img.w, img.h, img.c, LAMBDA y, x, ch : img.px[img.h - 1 - x][y][ch])

\* cv2.rotate(image, cv2.ROTATE_180)
Rotate180(img) ==
    Cv2Array(img.h, img.w, img.c, LAMBDA y, x, ch : img.px[img.h - 1 - y][img.w - 1 - x][ch])

\* cv2.rotate(image, cv2.ROTATE_90_COUNTERCLOCKWISE)
Rotate270(img) ==
    Cv2Array(img.w, img.h, img.c, LAMBDA y, x, ch : img.px[x][img.w - 1 - y][ch])

\* round(angle / 90) * 90 with the halves and everything below them rounded down
Nearest90Down(angle) == 90 * (angle \div 90)

\* round(angle / 90) * 90, Python's round: halves go to the even neighbour
Nearest90(angle) ==
    LET q == angle \div 90
        r == angle % 90
    IN  90 * (IF r < 45 THEN q ELSE IF r > 45 THEN q + 1 ELSE IF q % 2 = 0 THEN q ELSE q + 1)

RECURSIVE RotateProcess(_, _)
RotateProcess(img, angle) ==
    LET a == angle % 360
    IN  CASE a = 0 -> img
          [] a = 90 -> Rotate90(img)
          [] a = 180 -> Rotate180(img)
          [] a = 270 -> Rotate270(img)
          [] OTHER -> RotateProcess(img, Nearest90(a))

\* the number of times process calls itself (line 357) before it returns
RECURSIVE RotateRedispatches(_)
RotateRedispatches(angle) ==
    LET a == angle % 360
    IN  IF a \in {0, 90, 180, 270} THEN 0 ELSE 1 + RotateRedispatches(Nearest90(a))

\* return image (line 347) hands back the array it was given
RotateView(img, angle) ==
    IF angle % 360 \in {90, 180, 270} \/ Nearest90(angle % 360) % 360 # 0 THEN NoView ELSE ViewAt(0, 0)

(***************************************************************************)
(* UnsharpMaskStep.process: strength is the fraction s[1] / s[2]           *)
(***************************************************************************)
\* numpy broadcasting of two axis lengths: equal, or one of them 1
Broadcastable(m, n) == m = n \/ m = 1 \/ n = 1
BroadcastLen(m, n) == IF m = 1 THEN n ELSE m

\* element [i, j, k] of an array broadcast to three axes
Elem(img, i, j, k) ==
    IF img.nd = 2
    THEN img.px[IF img.h = 1 THEN 0 ELSE j][IF img.w = 1 THEN 0 ELSE k][0]
    ELSE img.px[IF img.h = 1 THEN 0 ELSE i][IF img.w = 1 THEN 0 ELSE j][IF img.c = 1 THEN 0 ELSE k]

\* the number of bits of a whole number i >= 1
RECURSIVE BitLen(_)
BitLen(i) == IF i < 2 THEN 1 ELSE 1 + BitLen(i \div 2)

\* the 8-bit value of np.clip(v + p, 0, 255).astype(np.uint8) for the float32 sum
\* of the whole number v in 0..255 and the float32 p = n / 2^j (minus that when
\* neg): the exact sum is whole + frac / 2^j, rounded to 24 significant bits
F32SumClipped(v, neg, n, j) ==
    LET ni == n \div Pow2(j)
        nf == n % Pow2(j)
        whole == IF ~neg THEN v + ni ELSE IF nf = 0 THEN v - ni ELSE v - ni - 1
        frac == IF ~neg \/ nf = 0 THEN nf ELSE Pow2(j) - nf
        keep == 24 - BitLen(whole)
    IN  IF whole < 0 THEN 0
        ELSE IF whole >= 255 THEN 255
        ELSE IF whole = 0
             THEN IF j >= 25 /\ frac >= Pow2(j) - Pow2(j - 25) THEN 1 ELSE 0
        ELSE IF j <= keep THEN whole
        ELSE IF RoundHalfEven(frac, Pow2(j - keep)) = Pow2(keep) THEN whole + 1 ELSE whole

\* diff = image - blurred; sharpened = image + strength * diff, all in float32,
\* clipped to 8 bits; strength s[1] / s[2] >= 0
UnsharpValue(v, b, s) ==
    IF s[1] = 0 \/ v = b THEN v
    ELSE LET mk == F32Fraction(s)
             p == F32Product(IF v > b THEN v - b ELSE b - v, mk[1], mk[2])
         IN  F32SumClipped(v, v < b, p[1], p[2])

UnsharpMaskProcess(img, s, blur_size) ==
    LET blurred == BoxBlurProcess(img, blur_size)
    IN  IF IsRaised(blurred) THEN blurred
        ELSE IF Shape(blurred) = Shape(img)
        THEN NewImage(img.nd, img.h, img.w, img.c,
                      LAMBDA y, x, ch : UnsharpValue(img.px[y][x][ch], blurred.px[y][x][ch], s))
        ELSE \* image is (h, w, 1) and blurred is (h, w): they are broadcast against
             \* each other as (h, w, 1) and (1, h, w)
             IF Broadcastable(img.w, blurred.h)
             THEN NewImage(3, img.h, BroadcastLen(img.w, blurred.h), blurred.w,
                           LAMBDA i, j, k :
                               UnsharpValue(Elem(img, i, j, k), Elem(blurred, i, j, k), s))
             ELSE Raised("ValueError")

(***************************************************************************)
(* ImageProcessingPipeline: the registry and process_image                 *)
(***************************************************************************)
\* the keys of the dictionary __init__ builds, and the class instantiated for each
StepNames ==
    {"brightness", "saturation", "hue", "box_blur", "unsharp_mask", "crop", "rotate"}

StepClass(key) ==
    CASE key = "brightness" -> "BrightnessStep"
      [] key = "saturation" -> "SaturationStep"
      [] key = "hue" -> "HueStep"
      [] key = "box_blur" -> "BoxBlurStep"
      [] key = "unsharp_mask" -> "UnsharpMaskStep"
      [] key = "crop" -> "CropStep"
      [] key = "rotate" -> "RotateStep"

\* the name and description properties of each class
NameOf(cls) ==
    CASE cls = "BrightnessStep" -> "brightness"
      [] cls = "SaturationStep" -> "saturation"
      [] cls = "HueStep" -> "hue"
      [] cls = "BoxBlurStep" -> "box_blur"
      [] cls = "UnsharpMaskStep" -> "unsharp_mask"
      [] cls = "CropStep" -> "crop"
      [] cls = "RotateStep" -> "rotate"

DescriptionOf(cls) ==
    CASE cls = "BrightnessStep" -> "Adjust the brightness of the image"
      [] cls = "SaturationStep" -> "Adjust the color saturation of the image"
      [] cls = "HueStep" -> "Shift the hue (color) of the image"
      [] cls = "BoxBlurStep" -> "Apply a box blur filter to the image"
      [] cls = "UnsharpMaskStep" -> "Sharpen the image using unsharp mask technique"
      [] cls = "CropStep" -> "Crop the image to a specified region"
      [] cls = "RotateStep" -> "Rotate the image in 90-degree increments"

\* step_config.get('step') and step_config.get('params', {})
StepName(cfg) == IF "step" \in DOMAIN cfg THEN cfg.step ELSE "None"
StepParams(cfg) == IF "params" \in DOMAIN cfg THEN cfg.params ELSE <<>>

\* the keyword parameters of each step's process method
ParamNames(name) ==
    CASE name = "brightness" -> {"factor"}
      [] name = "saturation" -> {"factor"}
      [] name = "hue" -> {"shift"}
      [] name = "box_blur" -> {"kernel_size"}
      [] name = "unsharp_mask" -> {"strength", "blur_size"}
      [] name = "crop" -> {"x", "y", "width", "height"}
      [] name = "rotate" -> {"angle"}

\* a keyword argument, or the default of the signature when the caller omits it
Arg(params, name, default) == IF name \in DOMAIN params THEN params[name] ELSE default

\* if step_name not in self.available_steps: raise ValueError(...)
IsRegisteredUnchecked(name) == TRUE

IsRegistered(name) == name \in DOMAIN available_steps

\* get_parameters() of each step: the declared schema, in declared order; a
\* float is the fraction <<numerator, denominator>>, and min_value / max_value
\* are absent where the schema leaves them None
get_parameters(name) ==
    CASE name = "brightness" ->
             <<[name |-> "factor", type |-> "float",
                description |-> "Brightness factor (0.0 = black, 1.0 = original, 2.0 = twice as bright)",
                default |-> <<1, 1>>, min_value |-> <<0, 1>>, max_value |-> <<3, 1>>]>>
      [] name = "saturation" ->
             <<[name |-> "factor", type |-> "float",
                description |-> "Saturation factor (0.0 = grayscale, 1.0 = original, 2.0 = double saturation)",
                default |-> <<1, 1>>, min_value |-> <<0, 1>>, max_value |-> <<3, 1>>]>>
      [] name = "hue" ->
             <<[name |-> "shift", type |-> "int",
                description |-> "Hue shift in degrees (-180 to 180)",
                default |-> 0, min_value |-> -180, max_value |-> 180]>>
      [] name = "box_blur" ->
             <<[name |-> "kernel_size", type |-> "int",
                description |-> "Size of the blur kernel (must be odd)",
                default |-> 5, min_value |-> 3, max_value |-> 31]>>
      [] name = "unsharp_mask" ->
             <<[name |-> "strength", type |-> "float", description |-> "Sharpening strength",
                default |-> <<1, 1>>, min_value |-> <<0, 1>>, max_value |-> <<5, 1>>],
               [name |-> "blur_size", type |-> "int",
                description |-> "Size of blur kernel for unsharp mask",
                default |-> 5, min_value |-> 3, max_value |-> 21]>>
      [] name = "crop" ->
             <<[name |-> "x", type |-> "int", description |-> "X coordinate of top-left corner",
                default |-> 0, min_value |-> 0],
               [name |-> "y", type |-> "int", description |-> "Y coordinate of top-left corner",
                default |-> 0, min_value |-> 0],
               [name |-> "width", type |-> "int", description |-> "Width of crop region",
                default |-> 100, min_value |-> 1],
               [name |-> "height", type |-> "int", description |-> "Height of crop region",
                default |-> 100, min_value |-> 1]>>
      [] name = "rotate" ->
             <<[name |-> "angle", type |-> "int",
                description |-> "Rotation angle (must be 0, 90, 180, or 270)", default |-> 0]>>

\* a step object: its class and what its name, description and get_parameters give
StepObject(cls) ==
    [cls |-> cls, name |-> NameOf(cls), description |-> DescriptionOf(cls),
     parameters |-> get_parameters(NameOf(cls))]

\* ImageProcessingPipeline.__init__: the registry after construction
Constructed == [key \in StepNames |-> StepObject(StepClass(key))]

\* no method of the pipeline assigns to self.available_steps or to a step
RegistryDropped(reg) == [key \in DOMAIN reg \ {"rotate"} |-> reg[key]]

RegistryKept(reg) == reg

\* defaults other than the ones the process methods declare
SignatureDefaultOther(name, param) ==
    IF param \in {"factor", "strength"} THEN <<2, 1>> ELSE 3

\* the default each process method declares for a keyword parameter
SignatureDefault(name, param) ==
    CASE name = "brightness" /\ param = "factor" -> <<1, 1>>
      [] name = "saturation" /\ param = "factor" -> <<1, 1>>
      [] name = "hue" /\ param = "shift" -> 0
      [] name = "box_blur" /\ param = "kernel_size" -> 5
      [] name = "unsharp_mask" /\ param = "strength" -> <<1, 1>>
      [] name = "unsharp_mask" /\ param = "blur_size" -> 5
      [] name = "crop" /\ param \in {"x", "y"} -> 0
      [] name = "crop" /\ param \in {"width", "height"} -> 100
      [] name = "rotate" /\ param = "angle" -> 0

\* the values process(result, **params) binds its keyword parameters to
EffectiveParams(name, params) ==
    [p \in ParamNames(name) |-> Arg(params, p, SignatureDefault(name, p))]

\* the step's process method on bound parameters
StepApply(name, a, img) ==
    CASE name = "brightness" -> BrightnessProcess(img, a.factor)
      [] name = "saturation" -> SaturationProcess(img, a.factor)
      [] name = "hue" -> HueProcess(img, a.shift)
      [] name = "box_blur" -> BoxBlurProcess(img, a.kernel_size)
      [] name = "unsharp_mask" -> UnsharpMaskProcess(img, a.strength, a.blur_size)
      [] name = "crop" -> CropProcess(img, a.x, a.y, a.width, a.height)
      [] name = "rotate" -> RotateProcess(img, a.angle)

\* step = self.available_steps[step_name]; step.process(result, **params)
StepProcess(name, params, img) ==
    IF name \notin DOMAIN available_steps THEN Raised("KeyError")
    ELSE IF ~(DOMAIN params \subseteq ParamNames(name)) THEN Raised("TypeError")
    ELSE StepApply(name, EffectiveParams(name, params), img)

\* the memory the array a step returns shares with the array it was given
StepView(name, params, img) ==
    LET a == EffectiveParams(name, params)
    IN  CASE name = "crop" -> CropView(img, a.x, a.y, a.width, a.height)
          [] name = "rotate" -> RotateView(img, a.angle)
          [] OTHER -> NoView

\* for step_config in pipeline: the invocation taken after k have been applied
CurrentConfigReversed(pl, k) == pl[Len(pl) - k]

CurrentConfig(pl, k) == pl[k + 1]

\* result = image.copy(): the working buffer is a new array with the same content
WorkingCopy(img) == img

\* result = step.process(result, **params) binds the name result to the step's
\* array; the caller's array is not assigned to
CallerBufferOverwritten(img, out) == out

CallerBufferAfterStep(img, out) == img

\* what the run does when a step raises: nothing catches the exception, so it
\* leaves the loop and the call; OnErrorSkip is a loop that goes on to the next
\* invocation instead
OnErrorSkip(kind) == [status |-> "running", advance |-> 1]

OnError(kind) == [status |-> "raised", advance |-> 0]

\* result = image.copy(), made contiguous
Enter ==
    /\ status = "called"
    /\ image # None
    /\ result' = WorkingCopy(image)
    /\ status' = "running"
    /\ view' = NoView
    /\ UNCHANGED <<image, orig, pipeline, idx, error, available_steps, steps_info>>
    /\ UNCHANGED <<other, disk, http>>

\* image.copy() on None: AttributeError, before the loop is reached
EnterNull ==
    /\ status = "called"
    /\ image = None
    /\ status' = "raised"
    /\ error' = "AttributeError"
    /\ result' = NoResult
    /\ view' = NoView
    /\ UNCHANGED <<image, orig, pipeline, idx, available_steps, steps_info>>
    /\ UNCHANGED <<other, disk, http>>

\* one iteration of the loop with a registered step that returns
ApplyStep ==
    /\ status = "running"
    /\ idx < Len(pipeline)
    /\ LET cfg == CurrentConfig(pipeline, idx)
           out == StepProcess(StepName(cfg), StepParams(cfg), result)
       IN  /\ IsRegistered(StepName(cfg))
           /\ ~IsRaised(out)
           /\ result' = out
           /\ view' = StepView(StepName(cfg), StepParams(cfg), result)
           /\ image' = CallerBufferAfterStep(image, out)
    /\ idx' = idx + 1
    /\ available_steps' = RegistryKept(available_steps)
    /\ UNCHANGED <<orig, pipeline, status, error, steps_info>>
    /\ UNCHANGED <<other, disk, http>>

\* one iteration of the loop whose step name is not in the registry
UnknownStep ==
    /\ status = "running"
    /\ idx < Len(pipeline)
    /\ ~IsRegistered(StepName(CurrentConfig(pipeline, idx)))
    /\ status' = "raised"
    /\ error' = "ValueError: Unknown step"
    /\ result' = NoResult
    /\ view' = NoView
    /\ available_steps' = RegistryKept(available_steps)
    /\ UNCHANGED <<image, orig, pipeline, idx, steps_info>>
    /\ UNCHANGED <<other, disk, http>>

\* one iteration of the loop whose step raises
StepRaises ==
    /\ status = "running"
    /\ idx < Len(pipeline)
    /\ LET cfg == CurrentConfig(pipeline, idx)
           out == StepProcess(StepName(cfg), StepParams(cfg), result)
       IN  /\ IsRegistered(StepName(cfg))
           /\ IsRaised(out)
           /\ error' = out.raised
           /\ status' = OnError(out.raised).status
           /\ idx' = idx + OnError(out.raised).advance
           /\ result' = IF OnError(out.raised).status = "raised" THEN NoResult ELSE result
    /\ view' = NoView
    /\ available_steps' = RegistryKept(available_steps)
    /\ UNCHANGED <<image, orig, pipeline, steps_info>>
    /\ UNCHANGED <<other, disk, http>>

\* return result
Return ==
    /\ status = "running"
    /\ idx = Len(pipeline)
    /\ status' = "returned"
    /\ UNCHANGED <<image, orig, pipeline, idx, result, error, view, available_steps, steps_info>>
    /\ UNCHANGED <<other, disk, http>>

\* the entry get_available_steps builds for one declared parameter: min_value
\* and max_value are copied when they are not None
ParamInfoTruthy(param) ==
    [f \in {"name", "type", "description", "default"} \cup
           {b \in DOMAIN param \cap {"min_value", "max_value"} :
               IF param.type = "float" THEN param[b][1] # 0 ELSE param[b] # 0} |-> param[f]]

ParamInfo(param) ==
    [f \in {"name", "type", "description", "default"} \cup
           (DOMAIN param \cap {"min_value", "max_value"}) |-> param[f]]

\* get_available_steps(): a new dictionary, one entry per registered step
GetAvailableSteps ==
    /\ status \in {"returned", "raised"}      \* between two process_image calls
    /\ steps_info' =
          [key \in DOMAIN available_steps |->
              [name |-> available_steps[key].name,
               description |-> available_steps[key].description,
               parameters |-> [i \in 1..Len(available_steps[key].parameters) |->
                                  ParamInfo(available_steps[key].parameters[i])]]]
    /\ steps_info' # steps_info
    /\ available_steps' = RegistryKept(available_steps)
    /\ UNCHANGED <<image, orig, pipeline, idx, result, status, error, view>>
    /\ UNCHANGED <<other, disk, http>>

(***************************************************************************)
(* Inputs.                                                                 *)
(***************************************************************************)
Layouts == {<<2, 1>>, <<3, 1>>, <<3, 3>>}      \* <<number of axes, channels>>

Dark == <<0, 100, 255>>
Light == <<255, 0, 100>>
Palette == {Dark, Light}

\* every h x w raster over the two colours, in each layout
PatternImages ==
    UNION {UNION {{NewImage(l[1], h, w, l[2], LAMBDA y, x, ch : f[y][x][ch + 1]) :
                        f \in [0..(h - 1) -> [0..(w - 1) -> Palette]]} :
                  l \in Layouts} :
           h \in 1..MaxH, w \in 1..MaxW}

UniformLevels == {0, 1, 100, 127, 200, 255}

UniformImage(l, h, w, v) == NewImage(l[1], h, w, l[2], LAMBDA y, x, ch : v)

UniformImages ==
    {UniformImage(l, h, w, v) : l \in Layouts, h \in 1..MaxH, w \in 1..MaxW, v \in UniformLevels}

\* one pixel of every 8-bit value
PixelImages == {UniformImage(<<3, 1>>, 1, 1, v) : v \in 0..255}

\* the solid 4 x 4 all-(100, 100, 100) BGR image
Solid100 == UniformImage(<<3, 3>>, 4, 4, 100)

\* a long one-row solid white raster
LargeImage == UniformImage(<<2, 1>>, 1, LargeW, 255)

\* rasters whose pixels all differ
GradientSeeds == {0, 200}
GradientImages ==
    {NewImage(l[1], h, w, l[2], LAMBDA y, x, ch : (s + 37 * y + 11 * x + 5 * ch) % 256) :
        l \in Layouts, h \in 1..MaxH, w \in 1..MaxW, s \in GradientSeeds}

\* 0.0, 0.5, 1.0, 1.3, 1.5, 2.0, 3.0
Factors == {<<0, 1>>, <<1, 2>>, <<1, 1>>, <<13, 10>>, <<3, 2>>, <<2, 1>>, <<3, 1>>}
\* 0.0, 0.15, 0.5, 1.0, 1.5, 5.0
Strengths == {<<0, 1>>, <<15, 100>>, <<1, 2>>, <<1, 1>>, <<3, 2>>, <<5, 1>>}
Angles == {0, 90, 180, 270}
\* negative, above 360, halfway between two multiples of 90, and next to them
AnyAngles ==
    {-450, -360, -271, -135, -90, -46, -45, -44, -1, 1, 44, 45, 46, 89, 91, 134, 135, 136,
     224, 225, 226, 314, 315, 316, 359, 360, 361, 405, 450, 719, 720, 765}

Brightness(f) == [step |-> "brightness", params |-> [factor |-> f]]
Blur(k) == [step |-> "box_blur", params |-> [kernel_size |-> k]]
Unsharp(s, k) == [step |-> "unsharp_mask", params |-> [strength |-> s, blur_size |-> k]]
Rotate(a) == [step |-> "rotate", params |-> [angle |-> a]]
Crop(x, y, width, height) ==
    [step |-> "crop", params |-> [x |-> x, y |-> y, width |-> width, height |-> height]]

\* origins left of, inside and right of the image; extents below 1, inside and beyond
CropOrigins == {-5, 0, 1, 5}
CropExtents == {-1, 0, 1, 2, 10}

\* the rasters of GradientImages that start at 0
CropImages == {g \in GradientImages : g.px[0][0][0] = 0}

\* a dark pixel in a corner of a light 2 x 2 grayscale image
SpotImage == NewImage(2, 2, 2, 1, LAMBDA y, x, ch : IF y = 0 /\ x = 0 THEN 20 ELSE 200)

\* a 100 x 100 BGR image whose pixels differ from their neighbours
Scene100 == NewImage(3, 100, 100, 3, LAMBDA y, x, ch : (37 * y + 11 * x + 5 * ch) % 256)
Saturation(f) == [step |-> "saturation", params |-> [factor |-> f]]
Hue(shift) == [step |-> "hue", params |-> [shift |-> shift]]
Sepia == [step |-> "sepia", params |-> <<>>]
\* an invocation with no 'params' key, and one that supplies some parameters only
NoParams(name) == [step |-> name]
Partial(name, params) == [step |-> name, params |-> params]
NoStepKey == [params |-> [factor |-> <<2, 1>>]]
UnknownParam == [step |-> "brightness", params |-> [gamma |-> <<2, 1>>]]

(***************************************************************************)
(* Spec: process_image called on one image with one pipeline.              *)
(***************************************************************************)
ExecInvocations ==
    {Brightness(<<1, 1>>), Brightness(<<2, 1>>), Rotate(0), Rotate(90), Rotate(180),
     Blur(3), Sepia, NoStepKey, UnknownParam}

\* invocations that leave parameters out, and ones that supply them
DefaultedInvocations ==
    {NoParams(name) : name \in StepNames}
    \cup {Partial("brightness", <<>>), Partial("unsharp_mask", [strength |-> <<1, 2>>]),
          Partial("unsharp_mask", [blur_size |-> 3]), Partial("crop", [x |-> 1]),
          Partial("crop", [width |-> 1, height |-> 1]),
          Saturation(<<1, 2>>), Hue(40), Hue(-180), Crop(1, 0, 2, 1)}

\* invocations with a value outside the declared minimum and maximum
OutOfRangeInvocations ==
    {Brightness(<<4, 1>>), Saturation(<<4, 1>>), Hue(200), Blur(1), Blur(33),
     Unsharp(<<6, 1>>, 3), Unsharp(<<1, 1>>, 23), Crop(0, 0, 0, 1), Crop(-1, 0, 1, 1)}

\* invocations whose step raises on some or all images
RaisingInvocations ==
    {Partial(name, [gamma |-> 1]) : name \in StepNames}

Pipelines ==
    UNION {[1..n -> ExecInvocations] : n \in 0..MaxLen}
    \cup {<<Rotate(90), Rotate(90), Rotate(90), Rotate(90)>>, <<Rotate(90), Rotate(270)>>,
          <<Rotate(270)>>}
    \cup {<<a>> : a \in DefaultedInvocations \cup OutOfRangeInvocations \cup RaisingInvocations}
    \cup {<<a, b>> : a \in DefaultedInvocations \cup RaisingInvocations,
                     b \in {Brightness(<<2, 1>>), Blur(3)}}
    \cup {<<b, a>> : a \in DefaultedInvocations \cup RaisingInvocations,
                     b \in {Brightness(<<2, 1>>), Blur(3)}}

\* the pipelines of a second call on the same pipeline object
FollowUps == {<<>>, <<Rotate(270), Rotate(270)>>, <<Rotate(270), Sepia>>, <<UnknownParam>>}

Init ==
    /\ \/ /\ image \in GradientImages
          /\ pipeline \in Pipelines
       \/ /\ image = Solid100
          /\ pipeline = <<Brightness(<<2, 1>>)>>
    /\ orig = image
    /\ idx = 0
    /\ result = NoResult
    /\ status = "called"
    /\ error = "none"
    /\ view = NoView
    /\ available_steps = Constructed
    /\ steps_info = NoInfo
    /\ other = NoCall
    /\ disk = NoDisk
    /\ http = NoHttp

\* process_image called again, once the call before it has returned or raised
NewCall ==
    /\ status \in {"returned", "raised"}
    /\ pipeline' \in FollowUps
    /\ idx' = 0
    /\ result' = NoResult
    /\ status' = "called"
    /\ error' = "none"
    /\ view' = NoView
    /\ UNCHANGED <<image, orig, available_steps, steps_info>>
    /\ UNCHANGED <<other, disk, http>>

Next ==
    \/ Enter \/ ApplyStep \/ UnknownStep \/ StepRaises \/ Return
    \/ GetAvailableSteps \/ NewCall

Spec == Init /\ [][Next]_vars

(***************************************************************************)
(* SpecStep: one step's process method called on one image.                *)
(***************************************************************************)
StepInit ==
    /\ \/ /\ image \in PatternImages \cup UniformImages
          /\ \/ \E k \in 1..MaxKernel : pipeline = <<Blur(k)>>
             \/ \E k \in 3..MaxKernel : pipeline = <<Unsharp(<<1, 1>>, k)>>
             \/ \E f \in Factors : pipeline = <<Brightness(f)>>
             \/ \E a \in Angles : pipeline = <<Rotate(a)>>
       \/ /\ image \in GradientImages
          /\ \E a \in AnyAngles : pipeline = <<Rotate(a)>>
       \/ /\ image \in CropImages
          /\ \E x, y \in CropOrigins : \E width, height \in CropExtents :
                pipeline = <<Crop(x, y, width, height)>>
       \/ /\ image \in UniformImages \cup GradientImages \cup {SpotImage}
          /\ \E k \in {3, MaxKernel} : \E st \in Strengths : pipeline = <<Unsharp(st, k)>>
       \/ /\ image = Scene100
          /\ pipeline = <<Crop(-5, -5, 10, 10)>>
       \/ /\ image \in PixelImages \cup {Solid100}
          /\ \E f \in Factors : pipeline = <<Brightness(f)>>
       \/ /\ image \in UniformImages
          /\ pipeline = <<Blur(31)>>
       \/ /\ image = LargeImage
          /\ pipeline = <<Blur(31)>>
    /\ orig = image
    /\ idx = 0
    /\ result = NoResult
    /\ status = "ready"
    /\ error = "none"
    /\ view = NoView
    /\ available_steps = Constructed
    /\ steps_info = NoInfo
    /\ other = NoCall
    /\ disk = NoDisk
    /\ http = NoHttp

\* what the call leaves behind: the returned array, or the exception
Outcome(out) ==
    /\ IF IsRaised(out)
       THEN result' = NoResult /\ error' = out.raised /\ view' = NoView
       ELSE /\ result' = out
            /\ error' = "none"
            /\ view' = StepView(StepName(pipeline[1]), StepParams(pipeline[1]), image)
    /\ status' = "done"
    /\ idx' = 1
    /\ UNCHANGED <<image, orig, pipeline, available_steps, steps_info>>
    /\ UNCHANGED <<other, disk, http>>

Called(name) == status = "ready" /\ StepName(pipeline[1]) = name

CallBrightness ==
    /\ Called("brightness")
    /\ Outcome(BrightnessProcess(image, Arg(StepParams(pipeline[1]), "factor", <<1, 1>>)))

CallBoxBlur ==
    /\ Called("box_blur")
    /\ Outcome(BoxBlurProcess(image, Arg(StepParams(pipeline[1]), "kernel_size", 5)))

CallUnsharpMask ==
    /\ Called("unsharp_mask")
    /\ Outcome(UnsharpMaskProcess(image, Arg(StepParams(pipeline[1]), "strength", <<1, 1>>),
                                  Arg(StepParams(pipeline[1]), "blur_size", 5)))

CallRotate ==
    /\ Called("rotate")
    /\ Outcome(RotateProcess(image, Arg(StepParams(pipeline[1]), "angle", 0)))

CallCrop ==
    /\ Called("crop")
    /\ Outcome(CropProcess(image, Arg(StepParams(pipeline[1]), "x", 0),
                           Arg(StepParams(pipeline[1]), "y", 0),
                           Arg(StepParams(pipeline[1]), "width", 100),
                           Arg(StepParams(pipeline[1]), "height", 100)))

\* the positions the caller writes to afterwards
WritePositions(img) ==
    {<<y, x, ch>> : y \in 0..(Min(img.h, MaxH) - 1), x \in 0..(Min(img.w, MaxW) - 1),
                    ch \in {0, img.c - 1}}

Returned(name) == status = "done" /\ StepName(pipeline[1]) = name /\ error = "none"

\* the caller writes to a pixel of the array crop returned: the write lands in
\* the source too when the two share memory
WriteResult ==
    /\ Returned("crop")
    /\ \E q \in WritePositions(result) :
          LET v == 255 - result.px[q[1]][q[2]][q[3]]
          IN  /\ result' = WritePixel(result, q[1], q[2], q[3], v)
              /\ image' = IF view.shared
                          THEN WritePixel(image, view.y0 + q[1], view.x0 + q[2], q[3], v)
                          ELSE image
    /\ status' = "result_written"
    /\ UNCHANGED <<orig, pipeline, idx, error, view, available_steps, steps_info>>
    /\ UNCHANGED <<other, disk, http>>

\* the caller writes to a pixel of the source after crop returned
WriteSource ==
    /\ Returned("crop")
    /\ \E q \in WritePositions(image) :
          LET v == 255 - image.px[q[1]][q[2]][q[3]]
              y == q[1] - (IF view.shared THEN view.y0 ELSE 0)
              x == q[2] - (IF view.shared THEN view.x0 ELSE 0)
          IN  /\ image' = WritePixel(image, q[1], q[2], q[3], v)
              /\ result' = IF view.shared /\ y \in 0..(result.h - 1) /\ x \in 0..(result.w - 1)
                           THEN WritePixel(result, y, x, q[3], v)
                           ELSE result
    /\ status' = "source_written"
    /\ UNCHANGED <<orig, pipeline, idx, error, view, available_steps, steps_info>>
    /\ UNCHANGED <<other, disk, http>>

StepNext ==
    \/ CallBrightness \/ CallBoxBlur \/ CallUnsharpMask \/ CallCrop \/ CallRotate
    \/ WriteResult \/ WriteSource

SpecStep == StepInit /\ [][StepNext]_vars

(***************************************************************************)
(* SpecConc: two process_image calls on the one pipeline object at the     *)
(* same time (the module-level pipeline of app.py serves every request).   *)
(* The first call is the one of Spec; the second keeps its arguments and   *)
(* locals in other.  The two share self.available_steps and the step       *)
(* objects in it, and may have been given the same caller buffer.          *)
(***************************************************************************)
main == <<image, orig, pipeline, idx, result, status, error, view, steps_info>>

\* the buffer the second call was given: the first call's, or one of its own
OtherImage == IF other.shares THEN image ELSE other.image

ResultOnInstance(mine, theirs) == IF theirs = NoResult THEN mine ELSE theirs

\* result is a local of the call, not an attribute of the pipeline or of a step
LocalResult(mine, theirs) == mine

OtherEnter ==
    /\ other.status = "called"
    /\ other' = [other EXCEPT !.result = WorkingCopy(OtherImage), !.status = "running"]
    /\ UNCHANGED <<main, available_steps, disk, http>>

OtherApplyStep ==
    /\ other.status = "running"
    /\ other.idx < Len(other.pipeline)
    /\ LET cfg == CurrentConfig(other.pipeline, other.idx)
           out == StepProcess(StepName(cfg), StepParams(cfg), LocalResult(other.result, result))
       IN  /\ IsRegistered(StepName(cfg))
           /\ ~IsRaised(out)
           /\ other' = [other EXCEPT !.result = out, !.idx = @ + 1]
           /\ image' = CallerBufferAfterStep(image, out)
    /\ available_steps' = RegistryKept(available_steps)
    /\ UNCHANGED <<orig, pipeline, idx, result, status, error, view, steps_info, disk, http>>

OtherUnknownStep ==
    /\ other.status = "running"
    /\ other.idx < Len(other.pipeline)
    /\ ~IsRegistered(StepName(CurrentConfig(other.pipeline, other.idx)))
    /\ other' = [other EXCEPT !.status = "raised", !.error = "ValueError: Unknown step",
                              !.result = NoResult]
    /\ available_steps' = RegistryKept(available_steps)
    /\ UNCHANGED <<main, disk, http>>

OtherStepRaises ==
    /\ other.status = "running"
    /\ other.idx < Len(other.pipeline)
    /\ LET cfg == CurrentConfig(other.pipeline, other.idx)
           out == StepProcess(StepName(cfg), StepParams(cfg), LocalResult(other.result, result))
       IN  /\ IsRegistered(StepName(cfg))
           /\ IsRaised(out)
           /\ other' = [other EXCEPT
                          !.error = out.raised,
                          !.status = OnError(out.raised).status,
                          !.idx = @ + OnError(out.raised).advance,
                          !.result = IF OnError(out.raised).status = "raised"
                                     THEN NoResult ELSE @]
    /\ available_steps' = RegistryKept(available_steps)
    /\ UNCHANGED <<main, disk, http>>

OtherReturn ==
    /\ other.status = "running"
    /\ other.idx = Len(other.pipeline)
    /\ other' = [other EXCEPT !.status = "returned"]
    /\ UNCHANGED <<main, available_steps, disk, http>>

\* full-size rasters of every layout
ConcImages == {g \in GradientImages : g.h = MaxH /\ g.w = MaxW}

\* runs through the shared BoxBlurStep, runs that return their input, runs that raise
ConcPipelines ==
    {<<>>,
     <<Blur(3), Unsharp(<<1, 1>>, 3)>>,
     <<Unsharp(<<3, 2>>, 3), Brightness(<<2, 1>>)>>,
     <<Rotate(0), Blur(3)>>,
     <<Brightness(<<2, 1>>), Sepia>>,
     <<Saturation(<<1, 2>>), Rotate(90)>>,
     <<Blur(3), UnknownParam>>}

ConcInit ==
    /\ image \in ConcImages
    /\ pipeline \in ConcPipelines
    /\ orig = image
    /\ idx = 0
    /\ result = NoResult
    /\ status = "called"
    /\ error = "none"
    /\ view = NoView
    /\ available_steps = Constructed
    /\ steps_info = NoInfo
    /\ \E shares \in BOOLEAN : \E img \in ConcImages : \E pl \in ConcPipelines :
          /\ shares => img = image
          /\ other = [shares |-> shares, image |-> img, pipeline |-> pl, idx |-> 0,
                      result |-> NoResult, status |-> "called", error |-> "none"]
    /\ disk = NoDisk
    /\ http = NoHttp

ConcNext ==
    \/ Enter \/ ApplyStep \/ UnknownStep \/ StepRaises \/ Return
    \/ OtherEnter \/ OtherApplyStep \/ OtherUnknownStep \/ OtherStepRaises \/ OtherReturn

SpecConc == ConcInit /\ [][ConcNext]_vars

(***************************************************************************)
(* SpecFile: process_image_from_file(image_path, pipeline, output_path),   *)
(* and process_image called on None.  A file is missing, holds bytes that  *)
(* are no image, or holds an image; a path is None or a stem and an        *)
(* extension.                                                              *)
(***************************************************************************)
NoPath == [none |-> TRUE]
Path(stem, ext) == [stem |-> stem, ext |-> ext]
EmptyPath == Path("", "")

Garbage == [kind |-> "garbage"]
ImageFile(img) == [kind |-> "image", raster |-> img]

\* cv2.imread(path), IMREAD_COLOR: the 3-channel BGR raster of the file, None
\* when there is no such file or it cannot be decoded
imread(files, path) ==
    IF path \in DOMAIN files /\ files[path].kind = "image"
    THEN LET img == files[path].raster
         IN  NewImage(3, img.h, img.w, 3, LAMBDA y, x, ch : img.px[y][x][IF img.c = 3 THEN ch ELSE 0])
    ELSE None

LoadFailedUnchecked(img) == FALSE

\* if image is None
LoadFailed(img) == img = None

\* if output_path
Truthy(path) == path # NoPath /\ path # EmptyPath

\* cv2.imwrite raises for an empty raster, and for an extension it has no writer for
ImwriteRaises(path, img) == img.h = 0 \/ img.w = 0 \/ path.ext # ".png"

FromFileLoad ==
    /\ disk.pc = "called"
    /\ LET img == imread(disk.files, disk.image_path)
       IN  /\ ~LoadFailed(img)
           /\ image' = img
           /\ orig' = img
    /\ status' = "called"
    /\ disk' = [disk EXCEPT !.pc = "processing"]
    /\ UNCHANGED <<pipeline, idx, result, error, view, available_steps, steps_info, other, http>>

FromFileLoadFails ==
    /\ disk.pc = "called"
    /\ LoadFailed(imread(disk.files, disk.image_path))
    /\ disk' = [disk EXCEPT !.pc = "raised", !.error = "ValueError: Could not load image"]
    /\ UNCHANGED <<main, available_steps, other, http>>

\* an exception of process_image leaves process_image_from_file too
FromFileRaises ==
    /\ disk.pc = "processing"
    /\ status = "raised"
    /\ disk' = [disk EXCEPT !.pc = "raised", !.error = error]
    /\ UNCHANGED <<main, available_steps, other, http>>

\* if output_path: cv2.imwrite(output_path, result); return result
FromFileWrite ==
    /\ disk.pc = "processing"
    /\ status = "returned"
    /\ disk' = IF ~Truthy(disk.output_path)
               THEN [disk EXCEPT !.pc = "returned"]
               ELSE IF ImwriteRaises(disk.output_path, result)
               THEN [disk EXCEPT !.pc = "raised", !.error = "cv2.error"]
               ELSE [disk EXCEPT
                       !.pc = "returned",
                       !.written = Append(@, disk.output_path),
                       !.files = [q \in DOMAIN disk.files \cup {disk.output_path} |->
                                     IF q = disk.output_path THEN ImageFile(result)
                                     ELSE disk.files[q]]]
    /\ UNCHANGED <<main, available_steps, other, http>>

InPath == Path("in", ".png")

\* grayscale and colour rasters a file can hold
FileRasters == {g \in GradientImages : g.nd = 2 \/ g.c = 3}

FilePipelines ==
    {<<>>, <<Brightness(<<2, 1>>)>>, <<Blur(3), Rotate(90)>>, <<Hue(40)>>,
     <<Crop(0, 0, 0, 1)>>, <<Sepia>>, <<Brightness(<<2, 1>>), UnknownParam>>}

OutputPaths == {NoPath, EmptyPath, InPath, Path("out", ".png"), Path("out", "")}

FileInit ==
    /\ pipeline \in FilePipelines
    /\ image = None
    /\ orig = None
    /\ idx = 0
    /\ result = NoResult
    /\ error = "none"
    /\ view = NoView
    /\ available_steps = Constructed
    /\ steps_info = NoInfo
    /\ other = NoCall
    /\ http = NoHttp
    /\ \/ /\ status = "not_called"       \* process_image_from_file
          /\ \E files \in [{InPath} -> {Garbage} \cup {ImageFile(g) : g \in FileRasters}]
                          \cup {<<>>} :
             \E out \in OutputPaths :
                disk = [pc |-> "called", files |-> files, image_path |-> InPath,
                        output_path |-> out, written |-> <<>>, error |-> "none"]
       \/ /\ status = "called"           \* process_image(None, pipeline)
          /\ disk = NoDisk

FileNext ==
    \/ FromFileLoad \/ FromFileLoadFails \/ FromFileRaises \/ FromFileWrite
    \/ Enter \/ EnterNull \/ ApplyStep \/ UnknownStep \/ StepRaises \/ Return

SpecFile == FileInit /\ [][FileNext]_vars

(***************************************************************************)
(* SpecHue: HueStep.process statement by statement, so that the HSV array  *)
(* it works on is part of the state: "hsv" after the conversion of line    *)
(* 139, "shifted" after lines 140-141, "done" after line 142.              *)
(***************************************************************************)
\* one row with a pixel of every encoded hue: pixel x has hue x
HueWheel == NewImage(3, 1, 180, 3, LAMBDA y, x, ch : Hsv2Bgr(x, 255, 255)[ch + 1])

HueShifts == -180..180

\* the shift the call passes, or the default of the signature
HueShiftArg == EffectiveParams("hue", StepParams(pipeline[1])).shift

\* hsv = cv2.cvtColor(image, cv2.COLOR_BGR2HSV).astype(np.float32)
HueToHsv ==
    /\ status = "ready"
    /\ IF IsBgr(image)
       THEN /\ result' = NewImage(3, image.h, image.w, 3,
                                  LAMBDA y, x, ch :
                                      LET p == image.px[y][x]
                                      IN  Bgr2Hsv(p[0], p[1], p[2])[ch + 1])
            /\ status' = "hsv"
            /\ error' = "none"
       ELSE /\ result' = NoResult
            /\ status' = "done"
            /\ error' = "cv2.error"
    /\ UNCHANGED <<image, orig, pipeline, idx, view, available_steps, steps_info>>
    /\ UNCHANGED <<other, disk, http>>

\* hsv[:, :, 0] = (hsv[:, :, 0] + shift/2) % 180; hsv = hsv.astype(np.uint8)
HueShiftChannel ==
    /\ status = "hsv"
    /\ result' = NewImage(3, result.h, result.w, 3,
                          LAMBDA y, x, ch :
                              IF ch = 0 THEN HueValue(result.px[y][x][0], HueShiftArg)
                              ELSE result.px[y][x][ch])
    /\ status' = "shifted"
    /\ UNCHANGED <<image, orig, pipeline, idx, error, view, available_steps, steps_info>>
    /\ UNCHANGED <<other, disk, http>>

\* return cv2.cvtColor(hsv, cv2.COLOR_HSV2BGR)
HueToBgr ==
    /\ status = "shifted"
    /\ result' = NewImage(3, result.h, result.w, 3,
                          LAMBDA y, x, ch :
                              LET p == result.px[y][x] IN Hsv2Bgr(p[0], p[1], p[2])[ch + 1])
    /\ status' = "done"
    /\ idx' = 1
    /\ UNCHANGED <<image, orig, pipeline, error, view, available_steps, steps_info>>
    /\ UNCHANGED <<other, disk, http>>

HueInit ==
    /\ \/ /\ image = HueWheel
          /\ \E shift \in HueShifts : pipeline = <<Hue(shift)>>
       \/ /\ image \in GradientImages
          /\ pipeline \in {<<Hue(-180)>>, <<Hue(-1)>>, <<NoParams("hue")>>, <<Hue(1)>>, <<Hue(180)>>}
    /\ orig = image
    /\ idx = 0
    /\ result = NoResult
    /\ status = "ready"
    /\ error = "none"
    /\ view = NoView
    /\ available_steps = Constructed
    /\ steps_info = NoInfo
    /\ other = NoCall
    /\ disk = NoDisk
    /\ http = NoHttp

HueNext == HueToHsv \/ HueShiftChannel \/ HueToBgr

SpecHue == HueInit /\ [][HueNext]_vars

(***************************************************************************)
(* SpecHttp: the handler of POST /api/process-json (src/app.py).  The      *)
(* request body is a dictionary with an optional "image" and an optional   *)
(* "pipeline".  An image string is a base64 text, with or without a data   *)
(* URL prefix before a comma; the text is described by what decoding it    *)
(* gives: an error, no bytes, bytes that are no image, or an image.        *)
(***************************************************************************)
NoExc == [kind |-> "none"]
NoResponse == [status_code |-> 0]

BadBase64 == [kind |-> "bad_base64"]
NoBytes == [kind |-> "no_bytes"]

\* base64 text of the payload, after "data:...;base64," when prefixed
Base64Text(prefixed, payload) == [kind |-> "text", prefixed |-> prefixed, payload |-> payload]

NoneValue == [kind |-> "None"]
EmptyString == [kind |-> "empty_string"]

\* data.get("image"): None when the key is absent
DataImage(data) == IF "image" \in DOMAIN data THEN data.image ELSE NoneValue

\* data.get("pipeline", [])
DataPipeline(data) == IF "pipeline" \in DOMAIN data THEN data.pipeline ELSE <<>>

\* not image_base64: None and the empty string
Falsy(value) == value \in {NoneValue, EmptyString}

\* base64_to_image: the prefix is split off, b64decode raises binascii.Error on
\* text that is not base64, cv2.imdecode raises on an empty buffer, returns None
\* for bytes that are no image, and the BGR raster otherwise
base64_to_image(text) ==
    LET bytes == text.payload
    IN  IF bytes = BadBase64 THEN Raised("binascii.Error")
        ELSE IF bytes = NoBytes THEN Raised("cv2.error")
        ELSE IF bytes.kind # "image" THEN None
        ELSE LET img == bytes.raster
             IN  NewImage(3, img.h, img.w, 3,
                          LAMBDA y, x, ch : img.px[y][x][IF img.c = 3 THEN ch ELSE 0])

HTTPException(status_code, detail) == [status_code |-> status_code, detail |-> detail]

\* str(e): of an HTTPException "<status_code>: <detail>" or, in older releases of
\* the framework, the empty string; of any other exception its message
StrOf(exc) ==
    IF "status_code" \in DOMAIN exc
    THEN {[prefix |-> exc.status_code, text |-> exc.detail], [text |-> ""]}
    ELSE {[text |-> exc.message]}

\* except Exception as e: raise HTTPException(status_code=500, detail=str(e));
\* HTTPException is an Exception, so the handler's own 400s are caught too
CaughtStatus(exc) == 500

\* lines 827-831
HandlerCheckImage ==
    /\ http.pc = "received"
    /\ http' = IF Falsy(DataImage(http.data))
               THEN [http EXCEPT !.pc = "except",
                                 !.exc = HTTPException(400, "No image provided")]
               ELSE [http EXCEPT !.pc = "decode"]
    /\ UNCHANGED <<main, available_steps, other, disk>>

\* lines 834-840: the image is decoded and process_image is called
HandlerDecode ==
    /\ http.pc = "decode"
    /\ LET img == base64_to_image(DataImage(http.data))
       IN  IF IsRaised(img)
           THEN /\ http' = [http EXCEPT !.pc = "except", !.exc = [message |-> img.raised]]
                /\ UNCHANGED <<image, orig, pipeline, status>>
           ELSE IF img = None
           THEN /\ http' = [http EXCEPT !.pc = "except",
                                        !.exc = HTTPException(400, "Invalid image data")]
                /\ UNCHANGED <<image, orig, pipeline, status>>
           ELSE /\ http' = [http EXCEPT !.pc = "processing"]
                /\ image' = img
                /\ orig' = img
                /\ pipeline' = DataPipeline(http.data)
                /\ status' = "called"
    /\ UNCHANGED <<idx, result, error, view, available_steps, steps_info, other, disk>>

\* an exception of process_image reaches the except clause
HandlerProcessRaised ==
    /\ http.pc = "processing"
    /\ status = "raised"
    /\ http' = [http EXCEPT !.pc = "except", !.exc = [message |-> error]]
    /\ UNCHANGED <<main, available_steps, other, disk>>

\* lines 843-849: both images are encoded (cv2.imencode raises on an empty
\* raster) and returned
HandlerEncode ==
    /\ http.pc = "processing"
    /\ status = "returned"
    /\ http' = IF result.h = 0 \/ result.w = 0
               THEN [http EXCEPT !.pc = "except", !.exc = [message |-> "cv2.error"]]
               ELSE [http EXCEPT !.pc = "responded",
                                 !.response = [status_code |-> 200, original |-> image,
                                               processed |-> result]]
    /\ UNCHANGED <<main, available_steps, other, disk>>

\* lines 851-855
HandlerExcept ==
    /\ http.pc = "except"
    /\ \E detail \in StrOf(http.exc) :
          http' = [http EXCEPT !.pc = "responded",
                               !.response = [status_code |-> CaughtStatus(http.exc),
                                             detail |-> detail]]
    /\ UNCHANGED <<main, available_steps, other, disk>>

HttpRasters == {g \in FileRasters : g.h = MaxH /\ g.w = MaxW}

HttpImages ==
    {EmptyString, NoneValue}
    \cup {Base64Text(prefixed, payload) :
             prefixed \in BOOLEAN,
             payload \in {BadBase64, NoBytes, Garbage} \cup {ImageFile(g) : g \in HttpRasters}}

HttpPipelines ==
    {<<>>, <<Brightness(<<2, 1>>)>>, <<Blur(3), Rotate(90)>>, <<Crop(0, 0, 0, 1)>>,
     <<Sepia>>, <<Brightness(<<2, 1>>), UnknownParam>>}

HttpBodies ==
    {<<>>}
    \cup {[image |-> im] : im \in HttpImages}
    \cup {[pipeline |-> pl] : pl \in HttpPipelines}
    \cup {[image |-> im, pipeline |-> pl] : im \in HttpImages, pl \in HttpPipelines}

HttpInit ==
    /\ http \in {[pc |-> "received", data |-> data, exc |-> NoExc, response |-> NoResponse] :
                    data \in HttpBodies}
    /\ image = None
    /\ orig = None
    /\ pipeline = <<>>
    /\ idx = 0
    /\ result = NoResult
    /\ status = "not_called"
    /\ error = "none"
    /\ view = NoView
    /\ available_steps = Constructed
    /\ steps_info = NoInfo
    /\ other = NoCall
    /\ disk = NoDisk

HttpNext ==
    \/ HandlerCheckImage \/ HandlerDecode \/ HandlerProcessRaised \/ HandlerEncode
    \/ HandlerExcept
    \/ Enter \/ ApplyStep \/ UnknownStep \/ StepRaises \/ Return

SpecHttp == HttpInit /\ [][HttpNext]_vars

(***************************************************************************)
(* Properties.                                                             *)
(***************************************************************************)
Pixels(img) == {<<y, x, ch>> : y \in 0..(img.h - 1), x \in 0..(img.w - 1), ch \in 0..(img.c - 1)}

\* s_n(...s_2(s_1(img))...) for the first n invocations of pl
RECURSIVE Composition(_, _, _)
Composition(pl, n, img) ==
    IF n = 0 THEN img
    ELSE StepProcess(StepName(pl[n]), StepParams(pl[n]), Composition(pl, n - 1, img))

\* C1: process_image applies the invocations in list order, each once, the output
\* of one being the input of the next: after idx iterations the working buffer is
\* s_idx(...s_1(image)...), the raster returned is s_n(...s_1(image)...) with n the
\* length of the pipeline, and for an empty pipeline it is the input image.
C1_AppliedInListOrder ==
    /\ status \in {"running", "returned"} =>
          /\ idx \in 0..Len(pipeline)
          /\ result = Composition(pipeline, idx, orig)
    /\ status = "returned" =>
          /\ idx = Len(pipeline)
          /\ pipeline = <<>> => result = orig

\* a returned run of a blur followed by a brightening, which do not commute
C1_Witness ==
    /\ status = "returned"
    /\ Len(pipeline) = 2
    /\ StepName(pipeline[1]) = "box_blur"
    /\ pipeline[2] = Brightness(<<2, 1>>)
    /\ result # Composition(<<pipeline[2], pipeline[1]>>, 2, orig)

\* the positions of the invocations whose step name is not registered
UnknownAt(pl) == {k \in 1..Len(pl) : StepName(pl[k]) \notin StepNames}

\* C2: when the pipeline holds an invocation whose step is not in the registry
\* (an unknown name or no 'step' key), the run never returns a raster, never
\* applies that invocation or one after it, and on reaching it raises the
\* unknown-step error and nothing else.
C2_UnknownStepAborts ==
    \A k \in UnknownAt(pipeline) :
        /\ status # "returned"
        /\ idx < k
        /\ (status = "running" /\ idx = k - 1) =>
              ENABLED UnknownStep /\ ~ENABLED ApplyStep /\ ~ENABLED StepRaises /\ ~ENABLED Return
        /\ (status = "raised" /\ idx = k - 1) =>
              error = "ValueError: Unknown step" /\ result = NoResult

\* the run stopped at an unknown step that a registered invocation follows
C2_Witness ==
    /\ status = "raised"
    /\ error = "ValueError: Unknown step"
    /\ Len(pipeline) > idx + 1
    /\ StepName(pipeline[idx + 2]) \in StepNames
    /\ idx + 1 \in UnknownAt(pipeline)

\* C3: the caller's image is never modified: in every state of a run, returned,
\* aborted or under way, its shape and every pixel are those it had at the call.
C3_CallerImageIntact == image = orig

\* a run that changed its working buffer and then aborted, or returned another raster
C3_Witness ==
    /\ idx >= 1
    /\ Composition(pipeline, idx, orig) # orig
    /\ status \in {"raised", "returned"}
    /\ status = "raised" => Len(pipeline) > idx

RECURSIVE SeqSum(_, _)
SeqSum(s, n) == IF n = 0 THEN 0 ELSE s[n] + SeqSum(s, n - 1)

\* the sum of the k x k window centred on (y, x), reads outside the image
\* clamped to the nearest border pixel
BruteSum(img, y, x, ch, k) ==
    LET pad == k \div 2
        row(dy) == SeqSum(Array([j \in 1..k |->
                       img.px[Max(0, Min(y + dy, img.h - 1))]
                             [Max(0, Min(x + j - 1 - pad, img.w - 1))][ch]]), k)
    IN  SeqSum(Array([i \in 1..k |-> row(i - 1 - pad)]), k)

BlurCalled == status = "done" /\ StepName(pipeline[1]) = "box_blur" /\ error = "none"
KernelSize == pipeline[1].params.kernel_size

\* C4: for every image and odd kernel_size, each output value of BoxBlurStep is
\* within one level of the mean of the kernel_size x kernel_size window with
\* clamped reads; the four-corner lookup in the integral table gives exactly that
\* window's sum and stays inside the table.
C4_BlurIsWindowMean ==
    (BlurCalled /\ KernelSize % 2 = 1) =>
        LET k == KernelSize
            pad == k \div 2
            T == Array([ch \in 1..image.c |-> IntegralTable(image, ch - 1, pad)])
        IN  \A q \in Pixels(image) :
                LET S == BruteSum(image, q[1], q[2], q[3], k)
                    r == result.px[q[1]][q[2]][q[3]]
                    at == BlurCorners(q[1], q[2], k)
                IN  /\ (r - 1) * k * k <= S
                    /\ S <= (r + 1) * k * k
                    /\ at.y2 <= image.h + 2 * pad
                    /\ at.x2 <= image.w + 2 * pad
                    /\ WindowSum(T[q[3] + 1], q[1], q[2], k) = S

IsUniform(img) == \A q \in Pixels(img) : img.px[q[1]][q[2]][q[3]] = img.px[0][0][q[3]]

\* C5: for an image whose pixels all have the same colour, BoxBlurStep returns
\* the same pixels, for every odd kernel_size from 3 to 31 and every image size.
C5_UniformBlurExact ==
    (BlurCalled /\ IsUniform(image) /\ KernelSize % 2 = 1 /\ KernelSize \in 3..31) =>
        result.px = image.px

\* the outcome of a direct call, as the pair of its two state components
Got(out) == IF IsRaised(out) THEN <<NoResult, out.raised>> ELSE <<out, "none">>

\* C6: an even kernel_size gives the raster of the next odd size: BoxBlurStep with
\* an even k returns what it returns with k + 1, and UnsharpMaskStep with an even
\* blur_size returns what it returns with blur_size + 1.
C6_EvenKernelCoerced ==
    /\ (status = "done" /\ StepName(pipeline[1]) = "box_blur" /\ KernelSize % 2 = 0) =>
          <<result, error>> = Got(BoxBlurProcess(image, KernelSize + 1))
    /\ (status = "done" /\ StepName(pipeline[1]) = "unsharp_mask"
            /\ pipeline[1].params.blur_size % 2 = 0) =>
          <<result, error>> = Got(UnsharpMaskProcess(image, pipeline[1].params.strength,
                                                    pipeline[1].params.blur_size + 1))

\* kernel_size 4 on an image that sizes 3 and 5 blur differently
C6_Witness ==
    /\ BlurCalled
    /\ KernelSize = 4
    /\ result # image
    /\ result # BoxBlurProcess(image, 3)

\* C7: BoxBlurStep returns a raster with the axes of its input, for a
\* height x width, a height x width x 1 and a height x width x 3 buffer.
C7_BlurKeepsShape == BlurCalled => Shape(result) = Shape(image)

BrightnessCalled == status = "done" /\ StepName(pipeline[1]) = "brightness" /\ error = "none"
Factor == pipeline[1].params.factor

\* C8: BrightnessStep gives clamp(v x factor, 0, 255) as an 8-bit value for every
\* v in 0..255: a value in 0..255, 255 when the product is at least 255, otherwise
\* the whole part of the product; factor 0 gives zeros, and the solid
\* (100, 100, 100) image with factor 2 gives the solid (200, 200, 200) image of
\* the same size.
C8_BrightnessClamps ==
    BrightnessCalled =>
        /\ Shape(result) = Shape(image)
        /\ \A q \in Pixels(image) :
              LET v == image.px[q[1]][q[2]][q[3]]
                  r == result.px[q[1]][q[2]][q[3]]
              IN  /\ r \in 0..255
                  /\ IF v * Factor[1] >= 255 * Factor[2] THEN r = 255
                     ELSE r * Factor[2] <= v * Factor[1] /\ v * Factor[1] < (r + 1) * Factor[2]
                  /\ Factor[1] = 0 => r = 0
        /\ (image = Solid100 /\ Factor = <<2, 1>>) => result = UniformImage(<<3, 3>>, 4, 4, 200)

\* C9: Brightness(factor=1) and Rotate(angle=0) each return the image they are
\* given, shape and pixels, and the pipeline [brightness 1.0, rotate 0] returns a
\* raster equal to the input.
C9_IdentitySteps ==
    /\ BrightnessProcess(image, <<1, 1>>) = image
    /\ RotateProcess(image, 0) = image
    /\ (status = "returned"
          /\ pipeline \in {<<Brightness(<<1, 1>>)>>, <<Rotate(0)>>,
                           <<Brightness(<<1, 1>>), Rotate(0)>>}) => result = orig

\* the pipeline [brightness 1.0, rotate 0] returned, on an image that is not uniform
C9_Witness ==
    /\ status = "returned"
    /\ pipeline = <<Brightness(<<1, 1>>), Rotate(0)>>
    /\ ~IsUniform(orig)
    /\ orig.h # orig.w

\* C10: Rotate(180) twice, Rotate(90) four times and Rotate(90) then Rotate(270)
\* each return exactly the original raster; one Rotate(90) or Rotate(270) swaps
\* width and height, Rotate(0) and Rotate(180) keep them.
C10_RotationsCompose ==
    /\ (status = "returned"
          /\ pipeline \in {<<Rotate(180), Rotate(180)>>, <<Rotate(90), Rotate(270)>>,
                           <<Rotate(90), Rotate(90), Rotate(90), Rotate(90)>>}) => result = orig
    /\ (status = "returned" /\ pipeline \in {<<Rotate(90)>>, <<Rotate(270)>>}) =>
          result.h = orig.w /\ result.w = orig.h
    /\ (status = "returned" /\ pipeline \in {<<Rotate(0)>>, <<Rotate(180)>>}) =>
          result.h = orig.h /\ result.w = orig.w
RotateCalled == status = "done" /\ StepName(pipeline[1]) = "rotate"
Angle == pipeline[1].params.angle
Distance(a, b) == IF a > b THEN a - b ELSE b - a

\* the multiples of 90 nearest to the angle taken modulo 360
NearestQuarters(angle) ==
    {m \in {0, 90, 180, 270, 360} :
        \A n \in {0, 90, 180, 270, 360} : Distance(angle % 360, m) <= Distance(angle % 360, n)}

\* the rotation by a quarter turn count, as cv2.rotate gives it
QuarterTurn(img, m) ==
    CASE m % 360 = 0 -> img
      [] m % 360 = 90 -> Rotate90(img)
      [] m % 360 = 180 -> Rotate180(img)
      [] m % 360 = 270 -> Rotate270(img)

\* C11: RotateStep.process raises for no integer angle: it returns the rotation
\* by a multiple of 90 nearest to the angle modulo 360 (360 meaning 0), and calls
\* itself at most once on the way.
C11_RotateNeverRejects ==
    RotateCalled =>
        /\ error = "none"
        /\ \E m \in NearestQuarters(Angle) : result = QuarterTurn(image, m)
        /\ RotateRedispatches(Angle) <= 1

\* an angle below zero that is not a multiple of 90 and takes one re-dispatch
C11_Witness ==
    /\ RotateCalled
    /\ Angle = -46
    /\ RotateRedispatches(Angle) = 1
    /\ result = Rotate270(image)
    /\ result # image

CropCalled == status = "done" /\ StepName(pipeline[1]) = "crop"
CropArg == pipeline[1].params
Inside(v, lo, hi) == Max(lo, Min(v, hi))

\* C12: on a non-empty image, for any origin and any width, height >= 1, crop
\* raises nothing and returns the rectangle that starts at the origin clamped into
\* the image and ends at the far corner clamped to the image's bounds: 1..width
\* columns and 1..height rows, all inside the source; Crop(-5, -5, 10, 10) on the
\* 100 x 100 image starts at (0, 0) and is no larger than 10 x 10.
C12_CropClampsInside ==
    (CropCalled /\ image.h >= 1 /\ image.w >= 1 /\ CropArg.width >= 1 /\ CropArg.height >= 1) =>
        LET cx == Inside(CropArg.x, 0, image.w - 1)
            cy == Inside(CropArg.y, 0, image.h - 1)
        IN  /\ error = "none"
            /\ result.nd = image.nd /\ result.c = image.c
            /\ result.w = Min(cx + CropArg.width, image.w) - cx
            /\ result.h = Min(cy + CropArg.height, image.h) - cy
            /\ result.w \in 1..CropArg.width /\ result.h \in 1..CropArg.height
            /\ cx + result.w <= image.w /\ cy + result.h <= image.h
            /\ \A q \in Pixels(result) :
                  result.px[q[1]][q[2]][q[3]] = image.px[cy + q[1]][cx + q[2]][q[3]]
            /\ (image = Scene100 /\ CropArg = Crop(-5, -5, 10, 10).params) =>
                  /\ result.px[0][0] = image.px[0][0]
                  /\ result.w <= 10 /\ result.h <= 10

\* an origin right of and below the image, pulled back to its last pixel
C12_Witness ==
    /\ CropCalled
    /\ image.h = 2 /\ image.w = 2
    /\ CropArg = Crop(5, 5, 10, 2).params
    /\ result.h = 1 /\ result.w = 1
    /\ result.px[0][0] = image.px[1][1]

\* C13: when width <= 0 or height <= 0, so that the far corner is not right of or
\* not below the clamped origin, crop returns a raster with no pixels.
C13_ZeroAreaIsEmpty ==
    (CropCalled /\ (CropArg.width <= 0 \/ CropArg.height <= 0)) =>
        error = "none" /\ Pixels(result) = {}

\* C14: the raster crop returns shares no memory with the source: a write to a
\* pixel of the result leaves the source as it was, and a write to a pixel of the
\* source leaves the result as crop returned it.
C14_CropOwnsItsBuffer ==
    /\ CropCalled => ~view.shared
    /\ (status = "result_written" /\ StepName(pipeline[1]) = "crop") => image = orig
    /\ (status = "source_written" /\ StepName(pipeline[1]) = "crop") =>
          result = CropProcess(orig, CropArg.x, CropArg.y, CropArg.width, CropArg.height)

\* a write to the source pixel that the crop's first pixel was copied from
C14_Witness ==
    /\ status = "source_written"
    /\ image.h = 2 /\ image.w = 2
    /\ CropArg = Crop(1, 1, 2, 2).params
    /\ image.px[1][1] # orig.px[1][1]
    /\ result.px[0][0] = orig.px[1][1]

UnsharpCalled == status = "done" /\ StepName(pipeline[1]) = "unsharp_mask"
Strength == pipeline[1].params.strength
BlurSize == pipeline[1].params.blur_size

\* C15: unsharp_mask with strength 0 returns the image it was given, for every
\* image and every blur_size.
C15_ZeroStrengthIsIdentity ==
    (UnsharpCalled /\ Strength = <<0, 1>>) => error = "none" /\ result = image

\* C16: unsharp_mask returns clamp(image + strength x (image - blurred), 0, 255)
\* per pixel, blurred being box_blur of the same image with kernel_size =
\* blur_size; the difference is signed (a pixel darker than its blur gives a
\* negative difference, not a wrapped one) and every value is in 0..255.
C16_UnsharpFormula ==
    UnsharpCalled =>
        LET blurred == BoxBlurProcess(image, BlurSize)
        IN  /\ error = "none"
            /\ Shape(result) = Shape(image)
            /\ \A q \in Pixels(image) :
                  LET v == image.px[q[1]][q[2]][q[3]]
                      b == blurred.px[q[1]][q[2]][q[3]]
                      r == result.px[q[1]][q[2]][q[3]]
                  IN  /\ r \in 0..255
                      /\ IF v * Strength[2] + Strength[1] * (v - b) < 0 THEN r = 0
                         ELSE IF v * Strength[2] + Strength[1] * (v - b) >= 255 * Strength[2]
                              THEN r = 255
                         ELSE /\ r * Strength[2] <= v * Strength[2] + Strength[1] * (v - b)
                              /\ v * Strength[2] + Strength[1] * (v - b) < (r + 1) * Strength[2]

\* the parameters an invocation leaves to the step, filled from the declared
\* schema: every declared parameter, the caller's value where there is one
MergedOverSchema(name, params) ==
    LET schema == get_parameters(name)
        declared == {schema[i].name : i \in 1..Len(schema)}
        entry(p) == CHOOSE i \in 1..Len(schema) : schema[i].name = p
    IN  [p \in declared |-> IF p \in DOMAIN params THEN params[p] ELSE schema[entry(p)].default]

\* an iteration of process_image's loop in which a step returned
StepReturned == status = "running" /\ idx' = idx + 1

\* C17: the step computes with the caller's parameters merged over the declared
\* defaults: for each of the seven steps the raster an iteration produces is the
\* step applied with every declared parameter, at the caller's value when the
\* invocation gives one and at the schema's default when it does not (or has no
\* 'params' at all).
C17_DefaultsMerged ==
    [][StepReturned =>
          LET cfg == CurrentConfig(pipeline, idx)
          IN  result' = StepApply(StepName(cfg), MergedOverSchema(StepName(cfg), StepParams(cfg)),
                                  result)]_vars

\* a blur with no 'params' ran with the declared kernel_size 5
C17_Witness ==
    /\ status = "returned"
    /\ pipeline = <<NoParams("box_blur")>>
    /\ result = BoxBlurProcess(orig, 5)
    /\ result # BoxBlurProcess(orig, 3)

\* a < b for two values of a declared type, a float being a fraction
Below(type, a, b) == IF type = "float" THEN a[1] * b[2] < b[1] * a[2] ELSE a < b

\* a value against the minimum and maximum a schema entry declares
OutOfRange(entry, v) ==
    \/ "min_value" \in DOMAIN entry /\ Below(entry.type, v, entry.min_value)
    \/ "max_value" \in DOMAIN entry /\ Below(entry.type, entry.max_value, v)

IntoRange(entry, v) ==
    IF "min_value" \in DOMAIN entry /\ Below(entry.type, v, entry.min_value) THEN entry.min_value
    ELSE IF "max_value" \in DOMAIN entry /\ Below(entry.type, entry.max_value, v) THEN entry.max_value
    ELSE v

\* the declared parameters the invocation supplies out of their range
SuppliedOutOfRange(cfg) ==
    LET schema == get_parameters(StepName(cfg))
    IN  {i \in 1..Len(schema) :
            /\ schema[i].name \in DOMAIN StepParams(cfg)
            /\ OutOfRange(schema[i], StepParams(cfg)[schema[i].name])}

\* the invocation's parameters over the defaults, each brought into its range
CoercedParams(cfg) ==
    LET schema == get_parameters(StepName(cfg))
        merged == MergedOverSchema(StepName(cfg), StepParams(cfg))
        entry(p) == CHOOSE i \in 1..Len(schema) : schema[i].name = p
    IN  [p \in DOMAIN merged |-> IntoRange(schema[entry(p)], merged[p])]

\* C18: a supplied value outside the declared minimum and maximum is rejected
\* with an error or brought into the range: an iteration whose invocation
\* supplies such a value and whose step returns produces the raster of the
\* step applied with the value coerced, never one computed from the value itself.
C18_OutOfRangeRejectedOrCoerced ==
    [][(StepReturned /\ StepName(CurrentConfig(pipeline, idx)) \in StepNames
          /\ DOMAIN StepParams(CurrentConfig(pipeline, idx))
                \subseteq ParamNames(StepName(CurrentConfig(pipeline, idx)))
          /\ SuppliedOutOfRange(CurrentConfig(pipeline, idx)) # {}) =>
          result' = StepApply(StepName(CurrentConfig(pipeline, idx)),
                              CoercedParams(CurrentConfig(pipeline, idx)), result)]_vars

\* the position of the first invocation of pl, from k on, at which the run on img
\* stops with an error (an unknown step or a step that raises), 0 when there is none
RECURSIVE FirstFailure(_, _, _)
FirstFailure(pl, k, img) ==
    IF k > Len(pl) THEN 0
    ELSE IF StepName(pl[k]) \notin StepNames THEN k
    ELSE LET out == StepProcess(StepName(pl[k]), StepParams(pl[k]), img)
         IN  IF IsRaised(out) THEN k ELSE FirstFailure(pl, k + 1, out)

\* C19: an error raised while a step is applied aborts the run at that step: the
\* run never returns a raster, the failing invocation is neither skipped nor
\* retried, none after it is applied, and the call ends with the error and no
\* raster; each of the seven steps raises the same error for a parameter name it
\* does not have.
C19_StepErrorAborts ==
    LET f == FirstFailure(pipeline, 1, orig)
    IN  /\ f # 0 => status # "returned" /\ idx < f
        /\ (f # 0 /\ status = "running" /\ idx = f - 1) =>
              /\ ~ENABLED Return
              /\ LET cfg == CurrentConfig(pipeline, idx)
                 IN  IsRegistered(StepName(cfg)) =>
                        IsRaised(StepProcess(StepName(cfg), StepParams(cfg), result))
        /\ status = "raised" =>
              /\ f # 0 /\ idx = f - 1
              /\ error # "none" /\ result = NoResult
              /\ ~ENABLED Enter /\ ~ENABLED ApplyStep /\ ~ENABLED StepRaises /\ ~ENABLED Return
              /\ (StepName(pipeline[f]) \in StepNames
                    /\ ~(DOMAIN StepParams(pipeline[f]) \subseteq ParamNames(StepName(pipeline[f])))) =>
                    error = "TypeError"

\* a step raised on a parameter name it does not have, with an invocation after it
C19_Witness ==
    /\ status = "raised"
    /\ error = "TypeError"
    /\ idx = 0
    /\ Len(pipeline) = 2
    /\ pipeline[1] = Partial("hue", [gamma |-> 1])
    /\ pipeline[2] = Brightness(<<2, 1>>)

\* C20: the registry holds exactly the seven names, each mapped to the step whose
\* name property is its key, and no call of process_image or get_available_steps,
\* returning or raising, adds, removes or replaces an entry or changes a schema.
C20_RegistryFixed ==
    /\ DOMAIN available_steps =
          {"brightness", "saturation", "hue", "box_blur", "unsharp_mask", "crop", "rotate"}
    /\ \A key \in DOMAIN available_steps :
          /\ available_steps[key].name = key
          /\ available_steps[key].cls = StepClass(key)
          /\ available_steps[key].parameters = get_parameters(key)
    /\ available_steps = Constructed

\* a second process_image call raised after get_available_steps was called
C20_Witness ==
    /\ status = "raised"
    /\ pipeline = <<Rotate(270), Sepia>>
    /\ idx = 1
    /\ steps_info # NoInfo
    /\ DOMAIN steps_info = DOMAIN available_steps


\* what process_image(img, pl) ends with when nothing else runs: the raster it
\* returns, or the error it raises
RunAlone(pl, img) ==
    LET f == FirstFailure(pl, 1, img)
    IN  IF f = 0
        THEN [status |-> "returned", result |-> Composition(pl, Len(pl), img), error |-> "none"]
        ELSE [status |-> "raised", result |-> NoResult,
              error |-> IF StepName(pl[f]) \notin StepNames
                        THEN "ValueError: Unknown step"
                        ELSE StepProcess(StepName(pl[f]), StepParams(pl[f]),
                                         Composition(pl, f - 1, img)).raised]

\* C21: two process_image calls that run at the same time on one pipeline object
\* do not interfere: under every interleaving of their steps each call ends as it
\* ends when run alone (the same raster returned, or the same error raised), the
\* caller's buffer, even when both calls were given the same one, and the registry
\* are left as they were.
C21_ConcurrentRunsIndependent ==
    /\ status \in {"returned", "raised"} =>
          [status |-> status, result |-> result, error |-> error] = RunAlone(pipeline, orig)
    /\ other.status \in {"returned", "raised"} =>
          [status |-> other.status, result |-> other.result, error |-> other.error]
             = RunAlone(other.pipeline, IF other.shares THEN orig ELSE other.image)
    /\ image = orig
    /\ available_steps = Constructed

\* the second call, given the same buffer, ran through the shared box blur from
\* start to end while the first call was between its blur and its unsharp mask
C21_Witness ==
    /\ status = "running" /\ idx = 1
    /\ pipeline = <<Blur(3), Unsharp(<<1, 1>>, 3)>>
    /\ other.status = "returned" /\ other.shares
    /\ other.pipeline = <<Unsharp(<<3, 2>>, 3), Brightness(<<2, 1>>)>>
    /\ other.result # result


\* a <= b for two values of a parameter's declared type
AtMost(type, a, b) == ~Below(type, b, a)

\* C22: get_available_steps returns one entry per registered step, keyed by the
\* step's symbolic name, with the step's name, its description and its parameters
\* in declared order; a parameter entry has the name, the name of the declared
\* type, the description and the default, and min_value / max_value exactly when
\* the schema declares them; every declared default lies within its declared
\* minimum and maximum.  The call takes no image and changes none.
C22_StepsDescribed ==
    steps_info # NoInfo =>
       /\ DOMAIN steps_info = StepNames
       /\ \A key \in StepNames :
             LET info == steps_info[key]
                 schema == get_parameters(key)
             IN  /\ DOMAIN info = {"name", "description", "parameters"}
                 /\ info.name = key
                 /\ info.description = DescriptionOf(StepClass(key))
                 /\ Len(info.parameters) = Len(schema)
                 /\ \A i \in 1..Len(schema) :
                       LET entry == info.parameters[i]
                       IN  /\ DOMAIN entry = {"name", "type", "description", "default"}
                                \cup (DOMAIN schema[i] \cap {"min_value", "max_value"})
                           /\ \A f \in DOMAIN entry : entry[f] = schema[i][f]
                           /\ entry.type \in {"float", "int"}
                           /\ "min_value" \in DOMAIN entry =>
                                 AtMost(entry.type, entry.min_value, entry.default)
                           /\ "max_value" \in DOMAIN entry =>
                                 AtMost(entry.type, entry.default, entry.max_value)
       /\ image = orig

\* the description was fetched: a minimum of 0 is there, an undeclared maximum is not
C22_Witness ==
    /\ steps_info # NoInfo
    /\ steps_info["crop"].parameters[1].min_value = 0
    /\ "max_value" \notin DOMAIN steps_info["crop"].parameters[3]
    /\ steps_info["unsharp_mask"].parameters[2].name = "blur_size"
    /\ DOMAIN steps_info["rotate"].parameters[1] = {"name", "type", "description", "default"}


\* the file process_image_from_file was pointed at is missing or is no image
Unloadable == disk # NoDisk /\ imread(disk.files, disk.image_path) = None

\* C23: a null or undecodable raster fails the run before any step is applied:
\* process_image_from_file on a file that cannot be loaded raises its ValueError
\* without invoking process_image and writes no file, and process_image on None
\* raises before the first step runs, whatever the pipeline.
C23_MalformedInputFailsFirst ==
    /\ Unloadable =>
          /\ status = "not_called" /\ idx = 0 /\ result = NoResult
          /\ disk.pc \in {"called", "raised"}
          /\ disk.pc = "raised" => disk.error = "ValueError: Could not load image"
          /\ disk.written = <<>>
          /\ disk.output_path \in DOMAIN disk.files => disk.output_path = disk.image_path
    /\ (disk = NoDisk /\ image = None) =>
          /\ status \in {"called", "raised"} /\ idx = 0 /\ result = NoResult
          /\ status = "raised" => error = "AttributeError"

\* a file of bytes that are no image, a pipeline to run and a path to write to:
\* the call has raised
C23_Witness ==
    /\ Unloadable /\ disk.pc = "raised"
    /\ disk.image_path \in DOMAIN disk.files
    /\ disk.files[disk.image_path] = Garbage
    /\ disk.output_path = Path("out", ".png")
    /\ pipeline = <<Blur(3), Rotate(90)>>


\* the hue of pixel (y, x) of the image the step was given, as line 139 encodes it
HueBefore(y, x) == LET p == image.px[y][x] IN Bgr2Hsv(p[0], p[1], p[2])[1]

\* C24: HueStep.process maps every encoded hue H in 0..179 to (H + shift/2)
\* modulo 180 for every whole shift from -180 to 180: the new hue is in 0..179,
\* shift 0 leaves H unchanged, and shift 180 and shift -180 give the same hue.
\* (Twice the new hue is 2H + shift modulo 360: the statement in whole numbers.)
C24_HueShiftModulo ==
    status = "shifted" =>
       \A y \in 0..(result.h - 1) : \A x \in 0..(result.w - 1) :
          LET new == result.px[y][x][0]
          IN  /\ 2 * new = (2 * HueBefore(y, x) + HueShiftArg) % 360
              /\ new \in 0..179
              /\ HueShiftArg = 0 => new = HueBefore(y, x)
              /\ HueShiftArg \in {-180, 180} => new = (HueBefore(y, x) + 90) % 180

\* C24 as amended: the new hue is the whole part of (H + shift/2) modulo 180,
\* which is (H + shift/2) modulo 180 itself when the shift is even; it is in
\* 0..179, shift 0 leaves H unchanged, and shift 180 and shift -180 both give
\* (H + 90) modulo 180.
C24_HueShiftTruncated ==
    status = "shifted" =>
       \A y \in 0..(result.h - 1) : \A x \in 0..(result.w - 1) :
          LET new == result.px[y][x][0]
              twice == (2 * HueBefore(y, x) + HueShiftArg) % 360
          IN  /\ new = twice \div 2
              /\ HueShiftArg % 2 = 0 => 2 * new = twice
              /\ new \in 0..179
              /\ HueShiftArg = 0 => new = HueBefore(y, x)
              /\ HueShiftArg \in {-180, 180} => new = (HueBefore(y, x) + 90) % 180

\* every hue shifted by an odd number of degrees below zero: hue 0 became 179
C24_Witness ==
    /\ status = "shifted"
    /\ image = HueWheel
    /\ HueShiftArg = -1
    /\ result.px[0][0][0] = 179
    /\ result.px[0][179][0] = 178

\* C25: at every step of a process_image run the working buffer is replaced by a
\* buffer that shares no memory with the buffer the step was given, for each of
\* the seven steps and every parameter value, rotate by 0 or 360 included.
C25_StepResultNeverAliasesInput ==
    (status \in {"running", "returned"} /\ idx > 0) => view = NoView

\* the request carries no image: the key is absent, or its value is None or ""
NoImageProvided == Falsy(DataImage(http.data))

\* the request carries image data that cannot be decoded to an image
InvalidImageData ==
    /\ ~NoImageProvided
    /\ LET img == base64_to_image(DataImage(http.data)) IN IsRaised(img) \/ img = None

\* C26: /api/process-json answers a request with no image with status 400 "No
\* image provided" and a request whose image data cannot be decoded with status
\* 400 "Invalid image data"; status 500 is for failures raised while the pipeline
\* is processed; in neither 400 case is process_image called.
C26_BadRequestsAnswered400 ==
    /\ (NoImageProvided \/ InvalidImageData) => status = "not_called"
    /\ http.pc = "responded" =>
          /\ NoImageProvided =>
                http.response = [status_code |-> 400, detail |-> [text |-> "No image provided"]]
          /\ InvalidImageData =>
                http.response = [status_code |-> 400, detail |-> [text |-> "Invalid image data"]]
          /\ http.response.status_code = 500 => status = "raised"

====
